---- MODULE Spec2Model ----
(***************************************************************************)
(* Model of src/resources/buffer.rs: BackedBuffer<T>, Batch<T> and         *)
(* IndexedBatch<T>, and of the text buffers of src/resources/font.rs:      *)
(* generate_text_data and TextPipeline::buffer_text / update_text /        *)
(* draw_text (specification SpecText), Font::load, Font::glyph and         *)
(* Font::unknown_glyph (specification SpecFont).                           *)
(*                                                                         *)
(* Two BackedBuffers are modelled: "v", a BackedBuffer<T> whose record     *)
(* type T has sizeT bytes, and "i", a BackedBuffer<u32>.  A device buffer  *)
(* is an identity (the number of the allocation among those made for its   *)
(* BackedBuffer) plus a byte array; a byte never written holds             *)
(* Uninit.  write_buffer with a range outside the buffer is a validation   *)
(* error of the device: the write is not performed and is logged with      *)
(* ok = FALSE.  io is the device traffic (allocations and writes) issued   *)
(* by the last operation, in program order, and last names that operation.*)
(* SpecConsumer adds a consumer that draws with the device buffers under   *)
(* the version-check protocol.                                             *)
(***************************************************************************)
EXTENDS Integers, Sequences, FiniteSets, TLC

\* ---------------------------------------------------------------- bounds
MaxLen == 4          \* pushes stop when a mirror holds this many records
MaxCap0 == 1         \* largest capacity given to with_capacity
MaxData == 1         \* longest record list given to with_data
MaxSpare == 1        \* largest spare capacity of the Vec given to with_data
MaxText == 2         \* longest text given to buffer_text / update_text

\* ------------------------------------------------------------- constants
IndexSize == 4       \* size_of::<u32>()
TexturedVertexSize == 16     \* size_of::<TexturedVertex>(): two Vec2 of f32
MinNonZeroCap == 4   \* smallest non-zero capacity Vec::push grows to
Uninit == 0 - 1      \* content of a device byte that was never written

Bufs == {"v", "i"}
SizesT == {2, 4, 8}          \* size_of::<T>() of the modelled record types

\* The record a caller appends at position p of a vertex mirror: every
\* position gets its own value, with two non-zero low bytes.
Rec(p) == 257 * (p + 1)
\* The value update()'s mutator stores, and the u32 given to with_data on "i".
Mark == 2056

VARIABLES sizeT, data, cap, dev, version, open, start, nextId, io, last, ctor,
          pushes,    \* number of push / vertex calls made on each buffer
          result,    \* what the last operation returned to its caller
          seen,      \* the version() a consumer saw when it last bound
          bound,     \* the device buffer identity a consumer has bound
          requested, \* the usage each constructor was called with
          usage,     \* the usage field of each BackedBuffer
          devUsage,  \* the usage each current device buffer was created with
          text,      \* the text last given to buffer_text / update_text
          vertices,  \* TextBuffer::vertices, a device buffer
          indices,   \* TextBuffer::indices, a device buffer
          numIndices, \* TextBuffer::num_indices
          font       \* the Font given to Font::load, and what load made of it

vars == <<sizeT, data, cap, dev, version, open, start, nextId, io, last, ctor,
          pushes, result, seen, bound, requested, usage, devUsage,
          text, vertices, indices, numIndices, font>>

\* the usage fields of the BackedBuffers, which no operation assigns
uvars == <<requested, usage>>

\* the state of a TextBuffer
tvars == <<text, vertices, indices, numIndices>>

\* the state of the BackedBuffers and of their batches
bvars == <<sizeT, data, cap, dev, version, open, start, nextId, ctor, pushes,
           requested, usage, devUsage>>

\* the state of a consumer that binds the device buffers for drawing
cvars == <<seen, bound>>

\* ------------------------------------------------------- pure operators
Max(a, b) == IF a >= b THEN a ELSE b

\* byte k (0 = least significant) of the value val
RECURSIVE ByteAt(_, _)
ByteAt(val, k) == IF k = 0 THEN val % 256 ELSE ByteAt(val \div 256, k - 1)

\* size_of of the element type of buffer b
ElemSize(b, szT) == IF b = "v" THEN szT ELSE IndexSize

\* the record lists of length n a caller hands to with_data
InitialData(b, n) ==
    IF b = "v" THEN [k \in 1..n |-> Rec(k - 1)] ELSE [k \in 1..n |-> Mark]

\* bytemuck bytes of one record: little-endian, sz bytes
ToBytes(val, sz) == [k \in 1..sz |-> ByteAt(val, k - 1)]

\* bytemuck::cast_slice(&records): the records' bytes, back to back
RECURSIVE CastSlice(_, _)
CastSlice(recs, sz) ==
    IF recs = <<>> THEN <<>>
    ELSE ToBytes(Head(recs), sz) \o CastSlice(Tail(recs), sz)

\* Vec::push capacity: unchanged while there is room, else amortized doubling
GrowCap(len, c) ==
    IF len < c THEN c ELSE Max(MinNonZeroCap, Max(2 * c, len + 1))

\* device.create_buffer: fresh identity, size bytes, nothing written yet
CreateBuffer(id, size) == [id |-> id, bytes |-> [k \in 1..size |-> Uninit]]

\* device.create_buffer_init: fresh identity holding exactly the contents
CreateBufferInit(id, contents) == [id |-> id, bytes |-> contents]

BufSize(d) == Len(d.bytes)

WriteInRange(d, offset, bytes) == offset + Len(bytes) <= BufSize(d)

\* queue.write_buffer(&d, offset, bytes)
WriteBuffer(d, offset, bytes) ==
    IF WriteInRange(d, offset, bytes)
    THEN [d EXCEPT !.bytes =
             [k \in 1..Len(d.bytes) |->
                 IF k > offset /\ k <= offset + Len(bytes)
                 THEN bytes[k - offset] ELSE d.bytes[k]]]
    ELSE d

AllocEvent(b, id, size) ==
    [op |-> "alloc", buf |-> b, id |-> id, offset |-> 0, len |-> size,
     bytes |-> <<>>, ok |-> TRUE]

WriteEvent(b, d, offset, bytes) ==
    [op |-> "write", buf |-> b, id |-> d.id, offset |-> offset,
     len |-> Len(bytes), bytes |-> bytes, ok |-> WriteInRange(d, offset, bytes)]

\* ------------------------------------------------- scope-exit commit logic
\* `let size = (data.capacity() * size_of::<T>())`
ReallocSize(c, sz) == c * sz

\* a commit that also reallocates when the mirror's storage exactly fits
NeedsReallocOrEqual(size, d) == size >= BufSize(d)

\* `if size > buffer.size()`
NeedsRealloc(size, d) == size > BufSize(d)

\* a partial write that always starts at the front of the device buffer
PartialOffsetFront(st, sz) == 0

\* `let offset = (start * size_of::<T>())`
PartialOffset(st, sz) == st * sz

\* a partial write that uploads the whole mirror instead of its tail
PartialSliceWhole(recs, st) == recs

\* `cast_slice(&data[start..])`
PartialSlice(recs, st) == SubSeq(recs, st + 1, Len(recs))

\* a commit that also runs when nothing was pushed
DirtyAlways(st, recs) == st <= Len(recs)

\* `if start < data.len()`
Dirty(st, recs) == st < Len(recs)

\* a commit that counts a reallocation twice
BumpVersionTwice(ver) == ver + 2

\* a commit that forgets to count a reallocation
BumpVersionNever(ver) == ver

\* `version += 1`
BumpVersion(ver) == ver + 1

\* a commit whose reallocation is sized to the records held, not to the
\* reserved capacity
CommitExactFit(b, recs, c, d, ver, st, esz, usz, id) ==
    IF ~Dirty(st, recs)
    THEN [dev |-> d, version |-> ver, nextId |-> id, io |-> <<>>]
    ELSE IF NeedsRealloc(ReallocSize(c, usz), d)
    THEN LET nd == CreateBuffer(id, ReallocSize(Len(recs), usz))
             bs == CastSlice(recs, esz)
         IN  [dev |-> WriteBuffer(nd, 0, bs),
              version |-> BumpVersion(ver),
              nextId |-> id + 1,
              io |-> <<AllocEvent(b, id, ReallocSize(Len(recs), usz)),
                       WriteEvent(b, nd, 0, bs)>>]
    ELSE LET off == PartialOffset(st, usz)
             bs == CastSlice(PartialSlice(recs, st), esz)
         IN  [dev |-> WriteBuffer(d, off, bs),
              version |-> ver,
              nextId |-> id,
              io |-> <<WriteEvent(b, d, off, bs)>>]

\* a commit whose reallocating branch uploads the old records and the
\* pushed records in two writes
CommitTwoWrites(b, recs, c, d, ver, st, esz, usz, id) ==
    IF ~Dirty(st, recs)
    THEN [dev |-> d, version |-> ver, nextId |-> id, io |-> <<>>]
    ELSE IF NeedsRealloc(ReallocSize(c, usz), d)
    THEN LET nd == CreateBuffer(id, ReallocSize(c, usz))
             old == CastSlice(SubSeq(recs, 1, st), esz)
             new == CastSlice(PartialSlice(recs, st), esz)
             d1 == WriteBuffer(nd, 0, old)
         IN  [dev |-> WriteBuffer(d1, Len(old), new),
              version |-> BumpVersion(ver),
              nextId |-> id + 1,
              io |-> <<AllocEvent(b, id, ReallocSize(c, usz)),
                       WriteEvent(b, nd, 0, old),
                       WriteEvent(b, d1, Len(old), new)>>]
    ELSE LET off == PartialOffset(st, usz)
             bs == CastSlice(PartialSlice(recs, st), esz)
         IN  [dev |-> WriteBuffer(d, off, bs),
              version |-> ver,
              nextId |-> id,
              io |-> <<WriteEvent(b, d, off, bs)>>]

\* The body of drop() for the buffer b whose mirror is recs (elements of esz
\* bytes, reserved capacity c), device buffer d, version ver, batch start st.
\* usz is the size_of the code multiplies capacity and start by.
\* Result: the new device buffer, version, next free identity and the I/O.
Commit(b, recs, c, d, ver, st, esz, usz, id) ==
    IF ~Dirty(st, recs)
    THEN [dev |-> d, version |-> ver, nextId |-> id, io |-> <<>>]
    ELSE IF NeedsRealloc(ReallocSize(c, usz), d)
    THEN LET nd == CreateBuffer(id, ReallocSize(c, usz))
             bs == CastSlice(recs, esz)
         IN  [dev |-> WriteBuffer(nd, 0, bs),
              version |-> BumpVersion(ver),
              nextId |-> id + 1,
              io |-> <<AllocEvent(b, id, ReallocSize(c, usz)),
                       WriteEvent(b, nd, 0, bs)>>]
    ELSE LET off == PartialOffset(st, usz)
             bs == CastSlice(PartialSlice(recs, st), esz)
         IN  [dev |-> WriteBuffer(d, off, bs),
              version |-> ver,
              nextId |-> id,
              io |-> <<WriteEvent(b, d, off, bs)>>]

\* size_of the vertex Batch's drop uses: size_of::<T>()
BatchUnit(szT) == szT

\* size_of the IndexedBatch's drop uses for the index buffer: size_of::<T>()
IndexUnit(szT) == szT

\* an index entry taken after the vertex was appended
NewIndexAfter(vrecs) == Len(vrecs) + 1

\* the index entry vertex() pushes: `self.batch.vertices.len()`
NewIndex(vrecs) == Len(vrecs)

\* --------------------------------------------------------- constructors
\* a with_capacity that sizes the device buffer in records, not bytes
WithCapacityRecords(b, c, szT, id) ==
    [data |-> <<>>, cap |-> c, dev |-> CreateBuffer(id, c),
     version |-> 0, ctor |-> [kind |-> "with_capacity", n |-> c]]

\* BackedBuffer::with_capacity(device, capacity, usage)
WithCapacity(b, c, szT, id) ==
    [data |-> <<>>, cap |-> c, dev |-> CreateBuffer(id, c * ElemSize(b, szT)),
     version |-> 0, ctor |-> [kind |-> "with_capacity", n |-> c]]

\* a with_data whose device buffer also covers the Vec's spare capacity
WithDataReserved(b, recs, spare, szT, id) ==
    [data |-> recs, cap |-> Len(recs) + spare,
     dev |-> WriteBuffer(CreateBuffer(id, (Len(recs) + spare)
                                             * ElemSize(b, szT)),
                         0, CastSlice(recs, ElemSize(b, szT))),
     version |-> 0, ctor |-> [kind |-> "with_data", n |-> Len(recs)]]

\* BackedBuffer::with_data(device, data, usage); spare is the unused
\* capacity of the Vec handed in
WithData(b, recs, spare, szT, id) ==
    [data |-> recs, cap |-> Len(recs) + spare,
     dev |-> CreateBufferInit(id, CastSlice(recs, ElemSize(b, szT))),
     version |-> 0, ctor |-> [kind |-> "with_data", n |-> Len(recs)]]

\* a constructor that stores the usage exactly as requested
StoredUsageAsGiven(req) == req

\* `let usage = usage | wgpu::BufferUsages::COPY_DST`
StoredUsage(req) == req \cup {"COPY_DST"}

\* `usage: self.vertices.usage` / `usage: self.indices.usage` of a
\* reallocating commit
ReallocUsage(u) == u

\* the usage of the device buffer of b after a commit with result r
UsageAfter(b, r) ==
    IF r.dev.id # dev[b].id THEN ReallocUsage(usage[b]) ELSE devUsage[b]

\* the usage callers request when they leave COPY_DST to the constructor
DefaultRequest == [b \in Bufs |-> IF b = "v" THEN {"VERTEX"} ELSE {"INDEX"}]

\* requests without COPY_DST, with it, and with several flags
Requests ==
    {DefaultRequest,
     [b \in Bufs |-> DefaultRequest[b] \cup {"COPY_DST"}],
     [b \in Bufs |-> {"STORAGE", "COPY_SRC"}]}

Constructed(b, szT, id) ==
    {WithCapacity(b, c, szT, id) : c \in 0..MaxCap0}
    \cup {WithData(b, InitialData(b, n), spare, szT, id) :
             n \in 0..MaxData, spare \in 0..MaxSpare}

\* ------------------------------------------------ font.rs: text buffers
\* The characters texts are made of: "a" has a visible glyph, " " a glyph of
\* no width and no height, "_" a glyph of no height, and "?" has no glyph in
\* the font, whose unknown_char is "b".
Chars == {"a", " ", "_", "?"}

Texts == UNION {[1..n -> Chars] : n \in 0..MaxText}

\* Font::info.glyphs, by Glyph::char
GlyphMap ==
    [c \in {"a", "b", " ", "_"} |->
        CASE c = "a" -> [width |-> 2, height |-> 3, x |-> 0, y |-> 0,
                         xoffset |-> 1, yoffset |-> 0, xadvance |-> 3]
          [] c = "b" -> [width |-> 3, height |-> 2, x |-> 2, y |-> 1,
                         xoffset |-> 0, yoffset |-> 1, xadvance |-> 4]
          [] c = " " -> [width |-> 0, height |-> 0, x |-> 0, y |-> 0,
                         xoffset |-> 0, yoffset |-> 0, xadvance |-> 2]
          [] c = "_" -> [width |-> 2, height |-> 0, x |-> 5, y |-> 0,
                         xoffset |-> 0, yoffset |-> 3, xadvance |-> 1]]

\* Font::unknown_char
UnknownChar == "b"

\* font.texture.width() and height()
TexWidth == 8
TexHeight == 4

\* Font::glyph(c) is Some
HasGlyph(c) == c \in DOMAIN GlyphMap

\* Font::unknown_glyph()
UnknownGlyph == GlyphMap[UnknownChar]

\* `font.glyph(c).unwrap_or_else(|| font.unknown_glyph())`
SelectedGlyph(c) == IF HasGlyph(c) THEN GlyphMap[c] ELSE UnknownGlyph

\* a glyph that is skipped: `glyph.width == 0 || glyph.height == 0`
ZeroSize(g) == g.width = 0 \/ g.height = 0

\* a skipped glyph that leaves the cursor where it is
SkipAdvanceNone(g) == 0

\* `cursor += glyph.xadvance as f32` of a skipped glyph
SkipAdvance(g) == g.xadvance

\* The four TexturedVertex of a glyph drawn at cursor.  A position is a pair
\* of numbers; a uv coordinate a / b is kept as the pair <<a, b>>.
GlyphQuad(g, cursor) ==
    LET p1x == cursor + g.xoffset + 20
        p1y == g.yoffset + 20
        p2x == p1x + g.width
        p2y == p1y + g.height
        minu == <<g.x, TexWidth>>
        minv == <<g.y, TexHeight>>
        maxu == <<g.x + g.width, TexWidth>>
        maxv == <<g.y + g.height, TexHeight>>
    IN  <<[position |-> <<p1x, p1y>>, uv |-> <<minu, minv>>],
          [position |-> <<p2x, p1y>>, uv |-> <<maxu, minv>>],
          [position |-> <<p2x, p2y>>, uv |-> <<maxu, maxv>>],
          [position |-> <<p1x, p2y>>, uv |-> <<minu, maxv>>]>>

\* `indices.extend_from_slice(&[i, i + 1, i + 2, i, i + 2, i + 3])`
QuadIndices(i) == <<i, i + 1, i + 2, i, i + 2, i + 3>>

\* the loop of generate_text_data over the rest txt of the text
RECURSIVE TextData(_, _, _)
TextData(txt, cursor, i) ==
    IF txt = <<>> THEN [verts |-> <<>>, indices |-> <<>>]
    ELSE LET g == SelectedGlyph(Head(txt))
         IN  IF ZeroSize(g)
             THEN TextData(Tail(txt), cursor + SkipAdvance(g), i)
             ELSE LET rest == TextData(Tail(txt), cursor + g.xadvance, i + 4)
                  IN  [verts |-> GlyphQuad(g, cursor) \o rest.verts,
                       indices |-> QuadIndices(i) \o rest.indices]

\* generate_text_data(font, text, font.unknown_char)
GenerateTextData(txt) == TextData(txt, 0, 0)

\* the positions of txt whose selected glyph is drawn
Visible(txt) == {p \in DOMAIN txt : ~ZeroSize(SelectedGlyph(txt[p]))}

\* the sum of the xadvance of the glyphs selected for the characters of txt
RECURSIVE Advance(_)
Advance(txt) ==
    IF txt = <<>> THEN 0
    ELSE SelectedGlyph(Head(txt)).xadvance + Advance(Tail(txt))

\* device.create_buffer_init over items of unit bytes each: a device buffer
\* is its byte size and the items it holds
TextBufferInit(items, unit) == [size |-> Len(items) * unit, items |-> items]

\* queue.write_buffer(&d, 0, cast_slice(items)): the leading items are
\* replaced, the rest of the buffer keeps what it held
TextWrite(d, items, unit) ==
    IF Len(items) * unit <= d.size
    THEN [d EXCEPT !.items =
             items \o SubSeq(d.items, Len(items) + 1, Len(d.items))]
    ELSE d

TextEvent(op, b, len, fits) ==
    [op |-> op, buf |-> b, offset |-> 0, len |-> len, ok |-> fits]

\* size_of the vertex test of update_text multiplies by:
\* size_of::<TexturedVertex>()
VertexTestUnit == TexturedVertexSize

\* size_of the index test of update_text multiplies by:
\* size_of::<TexturedVertex>()
IndexTestUnit == TexturedVertexSize

\* an update_text test that also replaces a buffer the data exactly fits
MustReplaceOrEqual(items, test, d) == Len(items) * test >= d.size

\* `if items.len() * size_of::<TexturedVertex>() > buffer.size()`
MustReplace(items, test, d) == Len(items) * test > d.size

\* one of the two if / else of update_text, on the device buffer d of the
\* TextBuffer field b
Upload(b, d, items, unit, test) ==
    IF MustReplace(items, test, d)
    THEN [buf |-> TextBufferInit(items, unit),
          io |-> <<TextEvent("alloc", b, Len(items) * unit, TRUE)>>]
    ELSE [buf |-> TextWrite(d, items, unit),
          io |-> <<TextEvent("write", b, Len(items) * unit,
                             Len(items) * unit <= d.size)>>]

\* TextPipeline::buffer_text(font, device, txt): the TextBuffer it returns
BufferText(txt) ==
    LET r == GenerateTextData(txt)
    IN  /\ text = txt
        /\ vertices = TextBufferInit(r.verts, TexturedVertexSize)
        /\ indices = TextBufferInit(r.indices, IndexSize)
        /\ numIndices = Len(r.indices)

\* ----------------------------------------------------- font.rs: Font::load
\* The glyph lists (Glyph::char of info.glyphs, in order) of the font
\* archives given to Font::load: every selection of the glyphs of GlyphMap,
\* and one list that names a character twice.
AllGlyphs == <<"a", "b", " ", "_">>

FontFiles ==
    {SelectSeq(AllGlyphs, LAMBDA c : c \in S) : S \in SUBSET DOMAIN GlyphMap}
    \cup {<<"a", "b", "a">>}

\* the Font value before load has run: the archive's glyph list and the
\* unknown_char argument
Unloaded(file, unknown) ==
    [status |-> "new", unknown_char |-> unknown, info |-> file,
     glyph_map |-> <<>>]

\* `for (i, glyph) in info.glyphs.iter().enumerate() { glyph_map.insert(..) }`
\* (indices from 1): a character named twice keeps its last index
BuildGlyphMap(file) ==
    [c \in {file[i] : i \in DOMAIN file} |->
        CHOOSE i \in DOMAIN file :
           file[i] = c /\ \A j \in DOMAIN file : file[j] = c => j <= i]

\* a load that does not look for unknown_char in the glyph map
FontLoadUnchecked(file, unknown) ==
    [status |-> "loaded", unknown_char |-> unknown, info |-> file,
     glyph_map |-> BuildGlyphMap(file)]

\* Font::load, from the parsed FontData on: Err when unknown_char has no
\* glyph, else the Font
FontLoad(file, unknown) ==
    LET gm == BuildGlyphMap(file)
    IN  IF unknown \notin DOMAIN gm
        THEN [status |-> "error", unknown_char |-> unknown, info |-> file,
              glyph_map |-> <<>>]
        ELSE [status |-> "loaded", unknown_char |-> unknown, info |-> file,
              glyph_map |-> gm]

\* Font::glyph(c): an Option, as a sequence of at most one glyph
FontGlyph(f, c) ==
    IF c \in DOMAIN f.glyph_map
    THEN <<GlyphMap[f.info[f.glyph_map[c]]]>>
    ELSE <<>>

\* Option::unwrap panics on None
UnwrapPanics(o) == o = <<>>

\* Font::unknown_glyph() panics: `self.glyph(self.unknown_char).unwrap()`
UnknownGlyphPanics(f) == UnwrapPanics(FontGlyph(f, f.unknown_char))

\* generate_text_data(f, txt, ..) panics: some character has no glyph and
\* the unknown_glyph() it falls back to panics
GeneratePanics(f, txt) ==
    \E p \in DOMAIN txt :
       FontGlyph(f, txt[p]) = <<>> /\ UnknownGlyphPanics(f)

\* the Font the text buffers are generated with: every glyph of GlyphMap,
\* loaded with UnknownChar
DefaultFont == FontLoad(AllGlyphs, UnknownChar)

\* the state right after the two BackedBuffers were constructed as bv and
\* bi, with the usages req
Built(szT, bv, bi, req) ==
    /\ sizeT = szT
    /\ data = [b \in Bufs |-> IF b = "v" THEN bv.data ELSE bi.data]
    /\ cap = [b \in Bufs |-> IF b = "v" THEN bv.cap ELSE bi.cap]
    /\ dev = [b \in Bufs |-> IF b = "v" THEN bv.dev ELSE bi.dev]
    /\ version = [b \in Bufs |-> IF b = "v" THEN bv.version ELSE bi.version]
    /\ ctor = [b \in Bufs |-> IF b = "v" THEN bv.ctor ELSE bi.ctor]
    /\ requested = req
    /\ usage = [b \in Bufs |-> StoredUsage(req[b])]
    /\ devUsage = usage
    /\ open = [b \in Bufs |-> "none"]
    /\ start = [b \in Bufs |-> 0]
    /\ nextId = [b \in Bufs |-> 1]
    /\ io = <<>>
    /\ last = "new"
    /\ pushes = [b \in Bufs |-> 0]
    /\ result = "buffer"
    /\ seen = [b \in Bufs |-> version[b]]
    /\ bound = [b \in Bufs |-> dev[b].id]

Init ==
    /\ \E szT \in SizesT :
          \E bv \in Constructed("v", szT, 0), bi \in Constructed("i", szT, 0) :
             Built(szT, bv, bi, DefaultRequest)
    /\ BufferText(<<>>)
    /\ font = DefaultFont

\* a len() that reports the reserved capacity instead of the record count
BufLenCapacity(b) == cap[b]

\* BackedBuffer::len()
BufLen(b) == Len(data[b])

\* ---------------------------------------------------------------- actions
\* BackedBuffer::batch / Batch::new on the vertex buffer
BatchNew ==
    /\ last' = "BatchNew"
    /\ result' = "batch"
    /\ UNCHANGED <<cvars, uvars, tvars, font>>
    /\ open["v"] = "none"
    /\ open' = [open EXCEPT !["v"] = "plain"]
    /\ start' = [start EXCEPT !["v"] = BufLen("v")]
    /\ io' = <<>>
    /\ UNCHANGED <<sizeT, data, cap, dev, version, nextId, ctor, pushes, devUsage>>

\* Batch::push(value)
Push ==
    /\ last' = "Push"
    /\ result' = "self"
    /\ UNCHANGED <<cvars, uvars, tvars, font>>
    /\ open["v"] = "plain"
    /\ Len(data["v"]) < MaxLen
    /\ data' = [data EXCEPT !["v"] = Append(@, Rec(Len(@)))]
    /\ cap' = [cap EXCEPT !["v"] = GrowCap(Len(data["v"]), @)]
    /\ pushes' = [pushes EXCEPT !["v"] = @ + 1]
    /\ io' = <<>>
    /\ UNCHANGED <<sizeT, dev, version, open, start, nextId, ctor, devUsage>>

\* Drop for Batch
BatchDrop ==
    /\ last' = "BatchDrop"
    /\ result' = "unit"
    /\ UNCHANGED <<cvars, uvars, tvars, font>>
    /\ open["v"] = "plain"
    /\ LET r == Commit("v", data["v"], cap["v"], dev["v"], version["v"],
                       start["v"], sizeT, BatchUnit(sizeT), nextId["v"])
       IN  /\ dev' = [dev EXCEPT !["v"] = r.dev]
           /\ version' = [version EXCEPT !["v"] = r.version]
           /\ nextId' = [nextId EXCEPT !["v"] = r.nextId]
           /\ io' = r.io
           /\ devUsage' = [devUsage EXCEPT !["v"] = UsageAfter("v", r)]
    /\ open' = [open EXCEPT !["v"] = "none"]
    /\ UNCHANGED <<sizeT, data, cap, start, ctor, pushes>>

\* BackedBuffer::batch_indexed / IndexedBatch::new
IndexedNew ==
    /\ last' = "IndexedNew"
    /\ result' = "batch"
    /\ UNCHANGED <<cvars, uvars, tvars, font>>
    /\ open["v"] = "none" /\ open["i"] = "none"
    /\ open' = [b \in Bufs |-> "indexed"]
    /\ start' = [b \in Bufs |-> IF b = "v" THEN BufLen("v") ELSE Len(data[b])]
    /\ io' = <<>>
    /\ UNCHANGED <<sizeT, data, cap, dev, version, nextId, ctor, pushes, devUsage>>

\* the mirrors and capacities after IndexedBatch::vertex(val)
AfterVertex(d, c, val) ==
    [data |-> [d EXCEPT !["i"] = Append(@, NewIndex(d["v"])),
                        !["v"] = Append(@, val)],
     cap |-> [b \in Bufs |-> GrowCap(Len(d[b]), c[b])]]

\* IndexedBatch::vertex(v)
Vertex ==
    /\ last' = "Vertex"
    /\ result' = "self"
    /\ UNCHANGED <<cvars, uvars, tvars, font>>
    /\ open["v"] = "indexed"
    /\ Len(data["v"]) < MaxLen /\ Len(data["i"]) < MaxLen
    /\ LET r == AfterVertex(data, cap, Rec(Len(data["v"])))
       IN  data' = r.data /\ cap' = r.cap
    /\ pushes' = [b \in Bufs |-> pushes[b] + 1]
    /\ io' = <<>>
    /\ UNCHANGED <<sizeT, dev, version, open, start, nextId, ctor, devUsage>>

\* a line() that takes the index of both end points before pushing either
LineSameIndex ==
    /\ last' = "Line"
    /\ result' = "self"
    /\ UNCHANGED <<cvars, uvars, tvars, font>>
    /\ open["v"] = "indexed"
    /\ Len(data["v"]) + 1 < MaxLen /\ Len(data["i"]) + 1 < MaxLen
    /\ LET r1 == AfterVertex(data, cap, Rec(Len(data["v"])))
           r2 == AfterVertex(r1.data, r1.cap, Rec(Len(data["v"]) + 1))
       IN  /\ data' = [r2.data EXCEPT !["i"] =
                          data["i"] \o <<NewIndex(data["v"]),
                                         NewIndex(data["v"])>>]
           /\ cap' = r2.cap
    /\ pushes' = [b \in Bufs |-> pushes[b] + 2]
    /\ io' = <<>>
    /\ UNCHANGED <<sizeT, dev, version, open, start, nextId, ctor, devUsage>>

\* IndexedBatch::line(a, b)
Line ==
    /\ last' = "Line"
    /\ result' = "self"
    /\ UNCHANGED <<cvars, uvars, tvars, font>>
    /\ open["v"] = "indexed"
    /\ Len(data["v"]) + 1 < MaxLen /\ Len(data["i"]) + 1 < MaxLen
    /\ LET r1 == AfterVertex(data, cap, Rec(Len(data["v"])))
           r2 == AfterVertex(r1.data, r1.cap, Rec(Len(data["v"]) + 1))
       IN  data' = r2.data /\ cap' = r2.cap
    /\ pushes' = [b \in Bufs |-> pushes[b] + 2]
    /\ io' = <<>>
    /\ UNCHANGED <<sizeT, dev, version, open, start, nextId, ctor, devUsage>>

\* an IndexedBatch drop that bumps both versions when either buffer is
\* reallocated
IndexedDropLockstep ==
    /\ last' = "IndexedDrop"
    /\ result' = "unit"
    /\ UNCHANGED <<cvars, uvars, tvars, font>>
    /\ open["v"] = "indexed"
    /\ LET ri == Commit("i", data["i"], cap["i"], dev["i"], version["i"],
                        start["i"], IndexSize, IndexUnit(sizeT), nextId["i"])
           rv == Commit("v", data["v"], cap["v"], dev["v"], version["v"],
                        start["v"], sizeT, BatchUnit(sizeT), nextId["v"])
           any == ri.version # version["i"] \/ rv.version # version["v"]
       IN  /\ dev' = [b \in Bufs |-> IF b = "v" THEN rv.dev ELSE ri.dev]
           /\ version' = [b \in Bufs |->
                             IF any THEN version[b] + 1 ELSE version[b]]
           /\ nextId' = [b \in Bufs |->
                            IF b = "v" THEN rv.nextId ELSE ri.nextId]
           /\ io' = ri.io \o rv.io
           /\ devUsage' = [b \in Bufs |->
                              UsageAfter(b, IF b = "v" THEN rv ELSE ri)]
    /\ open' = [b \in Bufs |-> "none"]
    /\ UNCHANGED <<sizeT, data, cap, start, ctor, pushes>>

\* an IndexedBatch drop that commits the vertex buffer before the index
\* buffer
IndexedDropVertexFirst ==
    /\ last' = "IndexedDrop"
    /\ result' = "unit"
    /\ UNCHANGED <<cvars, uvars, tvars, font>>
    /\ open["v"] = "indexed"
    /\ LET ri == Commit("i", data["i"], cap["i"], dev["i"], version["i"],
                        start["i"], IndexSize, IndexUnit(sizeT), nextId["i"])
           rv == Commit("v", data["v"], cap["v"], dev["v"], version["v"],
                        start["v"], sizeT, BatchUnit(sizeT), nextId["v"])
       IN  /\ dev' = [b \in Bufs |-> IF b = "v" THEN rv.dev ELSE ri.dev]
           /\ version' = [b \in Bufs |->
                             IF b = "v" THEN rv.version ELSE ri.version]
           /\ nextId' = [b \in Bufs |->
                            IF b = "v" THEN rv.nextId ELSE ri.nextId]
           /\ io' = rv.io \o ri.io
           /\ devUsage' = [b \in Bufs |->
                              UsageAfter(b, IF b = "v" THEN rv ELSE ri)]
    /\ open' = [b \in Bufs |-> "none"]
    /\ UNCHANGED <<sizeT, data, cap, start, ctor, pushes>>

\* Drop for IndexedBatch: the body of IndexedBatch::drop commits the index
\* buffer, then the field `batch` is dropped, which commits the vertex buffer
IndexedDrop ==
    /\ last' = "IndexedDrop"
    /\ result' = "unit"
    /\ UNCHANGED <<cvars, uvars, tvars, font>>
    /\ open["v"] = "indexed"
    /\ LET ri == Commit("i", data["i"], cap["i"], dev["i"], version["i"],
                        start["i"], IndexSize, IndexUnit(sizeT), nextId["i"])
           rv == Commit("v", data["v"], cap["v"], dev["v"], version["v"],
                        start["v"], sizeT, BatchUnit(sizeT), nextId["v"])
       IN  /\ dev' = [b \in Bufs |-> IF b = "v" THEN rv.dev ELSE ri.dev]
           /\ version' = [b \in Bufs |->
                             IF b = "v" THEN rv.version ELSE ri.version]
           /\ nextId' = [b \in Bufs |->
                            IF b = "v" THEN rv.nextId ELSE ri.nextId]
           /\ io' = ri.io \o rv.io
           /\ devUsage' = [b \in Bufs |->
                              UsageAfter(b, IF b = "v" THEN rv ELSE ri)]
    /\ open' = [b \in Bufs |-> "none"]
    /\ UNCHANGED <<sizeT, data, cap, start, ctor, pushes>>

\* the mutators update() is called with: leave the slice alone, or rewrite
\* its first record (the "header")
Mutators == {"identity", "header"}

Mutated(recs, f) ==
    IF f = "header" /\ recs # <<>> THEN [recs EXCEPT ![1] = Mark] ELSE recs

\* BackedBuffer::update(queue, f)
Update ==
    /\ last' = "Update"
    /\ result' = "unit"
    /\ UNCHANGED <<cvars, uvars, tvars, font>>
    /\ \E b \in Bufs :
          /\ open[b] = "none"
          /\ \E f \in Mutators :
                LET recs == Mutated(data[b], f)
                    bs == CastSlice(recs, ElemSize(b, sizeT))
                IN  /\ data' = [data EXCEPT ![b] = recs]
                    /\ dev' = [dev EXCEPT ![b] = WriteBuffer(@, 0, bs)]
                    /\ io' = <<WriteEvent(b, dev[b], 0, bs)>>
    /\ UNCHANGED <<sizeT, cap, version, open, start, nextId, ctor, pushes, devUsage>>

Next ==
    \/ BatchNew
    \/ Push
    \/ BatchDrop
    \/ IndexedNew
    \/ Vertex
    \/ Line
    \/ IndexedDrop
    \/ Update

Spec == Init /\ [][Next]_vars

\* -------------------------------------------------------------- consumer
\* the binding a consumer holds for buffer b after the version check:
\* version() differs from the remembered one -> re-fetch buffer()
Rebind(b) == IF version[b] # seen[b] THEN dev[b].id ELSE bound[b]

\* One draw of a consumer that follows the version-check protocol; buffer()
\* and version() borrow the BackedBuffers, so no batch is open.
Draw ==
    /\ last' = "Draw"
    /\ result' = "unit"
    /\ \A b \in Bufs : open[b] = "none"
    /\ bound' = [b \in Bufs |-> Rebind(b)]
    /\ seen' = version
    /\ io' = <<>>
    /\ UNCHANGED <<sizeT, data, cap, dev, version, open, start, nextId, ctor,
                   pushes, devUsage>>
    /\ UNCHANGED <<uvars, tvars, font>>

NextConsumer ==
    \/ Next
    \/ Draw

SpecConsumer == Init /\ [][NextConsumer]_vars

\* --------------------------------------------------------- usage requests
\* construction with any of the usage requests, over 4-byte records
InitUsage ==
    /\ \E req \in Requests :
          \E bv \in Constructed("v", 4, 0), bi \in Constructed("i", 4, 0) :
             Built(4, bv, bi, req)
    /\ BufferText(<<>>)
    /\ font = DefaultFont

SpecUsage == InitUsage /\ [][Next]_vars

\* ----------------------------------------------------------- text buffers
\* TextPipeline::update_text(font, t, buffer, device, queue)
UpdateText ==
    /\ last' = "UpdateText"
    /\ result' = "ok"
    /\ \E t \in Texts :
          LET r == GenerateTextData(t)
              rv == Upload("vertices", vertices, r.verts,
                           TexturedVertexSize, VertexTestUnit)
              ri == Upload("indices", indices, r.indices,
                           IndexSize, IndexTestUnit)
          IN  /\ text' = t
              /\ vertices' = rv.buf
              /\ indices' = ri.buf
              /\ numIndices' = Len(r.indices)
              /\ io' = rv.io \o ri.io
    /\ UNCHANGED <<bvars, cvars, font>>

\* TextPipeline::draw_text(pass, text, camera_binding): draw_indexed reads
\* the index range 0..num_indices of the bound index buffer, which the
\* device rejects when the range does not lie inside the buffer
DrawText ==
    /\ last' = "DrawText"
    /\ result' = IF numIndices * IndexSize <= indices.size
                 THEN "drawn" ELSE "error"
    /\ io' = <<>>
    /\ UNCHANGED <<bvars, cvars, tvars, font>>

\* a TextBuffer made by buffer_text, next to two empty BackedBuffers
InitText ==
    /\ Built(4, WithCapacity("v", 0, 4, 0), WithCapacity("i", 0, 4, 0),
             DefaultRequest)
    /\ \E t \in Texts : BufferText(t)
    /\ font = DefaultFont

NextText ==
    \/ UpdateText
    \/ DrawText

SpecText == InitText /\ [][NextText]_vars

\* ------------------------------------------------------------------ fonts
\* Font::load(resources, path, unknown_char, device, queue)
Load ==
    /\ last' = "Load"
    /\ font.status = "new"
    /\ font' = FontLoad(font.info, font.unknown_char)
    /\ result' = IF font'.status = "loaded" THEN "ok" ELSE "error"
    /\ io' = <<>>
    /\ UNCHANGED <<bvars, cvars, tvars>>

\* Font::unknown_glyph() on a Font that load returned
CallUnknownGlyph ==
    /\ last' = "UnknownGlyph"
    /\ font.status = "loaded"
    /\ result' = IF UnknownGlyphPanics(font) THEN "panic" ELSE "glyph"
    /\ io' = <<>>
    /\ UNCHANGED <<bvars, cvars, tvars, font>>

\* generate_text_data(font, t, font.unknown_char) on a Font that load
\* returned, for a text t
CallGenerate ==
    /\ last' = "GenerateTextData"
    /\ font.status = "loaded"
    /\ \E t \in Texts :
          result' = IF GeneratePanics(font, t) THEN "panic" ELSE "data"
    /\ io' = <<>>
    /\ UNCHANGED <<bvars, cvars, tvars, font>>

\* a font archive and an unknown_char about to be loaded
InitFont ==
    /\ Built(4, WithCapacity("v", 0, 4, 0), WithCapacity("i", 0, 4, 0),
             DefaultRequest)
    /\ BufferText(<<>>)
    /\ \E file \in FontFiles, unknown \in Chars \cup DOMAIN GlyphMap :
          font = Unloaded(file, unknown)

NextFont ==
    \/ Load
    \/ CallUnknownGlyph
    \/ CallGenerate

SpecFont == InitFont /\ [][NextFont]_vars

\* ------------------------------------------------------------ observers
\* the first len() records of the device buffer, as bytes
DevicePrefix(b) ==
    [k \in 1..(BufLen(b) * ElemSize(b, sizeT)) |->
        IF k <= BufSize(dev[b]) THEN dev[b].bytes[k] ELSE Uninit]

Consistent(b) == DevicePrefix(b) = CastSlice(data[b], ElemSize(b, sizeT))

\* the number of records buffer b was constructed with
Given(b) == IF ctor[b].kind = "with_data" THEN ctor[b].n ELSE 0

\* the number of device allocations the log holds for buffer b
Allocs(b, log) ==
    Cardinality({k \in DOMAIN log : log[k].op = "alloc" /\ log[k].buf = b})

\* the device writes the log holds for buffer b, in order
Writes(b, log) == SelectSeq(log, LAMBDA e : e.op = "write" /\ e.buf = b)

TypeOK ==
    /\ sizeT \in SizesT
    /\ \A b \in Bufs : Len(data[b]) <= cap[b] /\ Len(data[b]) <= MaxLen
    /\ \A b \in Bufs : open[b] \in {"none", "plain", "indexed"}

\* ------------------------------------------------------------------ C1
\* C1: whenever no batch is open on the BackedBuffer<T> that is filled by
\* Batch scopes and update calls, the first len() records of its device
\* buffer equal the host mirror, byte for byte.
C1_MirrorDeviceConsistent == open["v"] = "none" => Consistent("v")

\* a plain batch has just committed its pushes behind older records by a
\* partial write, on a buffer that was reallocated before
C1_Witness ==
    /\ last = "BatchDrop"
    /\ version["v"] = 1
    /\ start["v"] >= 1
    /\ BufLen("v") >= start["v"] + 2
    /\ Len(io) = 1 /\ io[1].op = "write" /\ io[1].offset > 0

\* ------------------------------------------------------------------ C2
\* C2: in every step, version() of each BackedBuffer does not decrease and
\* grows by exactly the number of device reallocations the step made for
\* that buffer (one for a reallocating commit, none for anything else).
C2_VersionMonotone ==
    [][\A b \in Bufs :
          /\ version'[b] >= version[b]
          /\ version'[b] = version[b] + Allocs(b, io')
          /\ Allocs(b, io') <= 1]_vars

\* both buffers were reallocated, one of them twice
C2_Witness ==
    /\ version["i"] = 2
    /\ version["v"] = 1
    /\ last = "IndexedDrop"

\* ------------------------------------------------------------------ C3
\* C3: in every step, the device buffer handle of a BackedBuffer is
\* replaced if and only if its version() changes.
C3_VersionTracksIdentity ==
    [][\A b \in Bufs :
          (dev'[b].id # dev[b].id) <=> (version'[b] # version[b])]_vars

\* a plain batch has just replaced the vertex buffer's device buffer
C3_Witness ==
    /\ last = "BatchDrop"
    /\ Allocs("v", io) = 1
    /\ dev["v"].id = 1
    /\ version["v"] = 1

\* ------------------------------------------------------------------ C4
\* C4: opening a Batch or an IndexedBatch, and ending it without any push,
\* each leave version(), len(), the device buffer identity and the device
\* contents of both buffers unchanged and issue no allocation and no write.
C4_NoOpBatch ==
    [][/\ last' \in {"BatchNew", "IndexedNew"}
          => io' = <<>> /\ UNCHANGED <<data, cap, dev, version>>
       /\ (/\ last' \in {"BatchDrop", "IndexedDrop"}
           /\ \A b \in Bufs : open[b] # "none" => start[b] = Len(data[b]))
          => io' = <<>> /\ UNCHANGED <<data, cap, dev, version>>]_vars

\* an IndexedBatch without pushes has just ended on non-empty buffers that
\* were reallocated before
C4_Witness ==
    /\ last = "IndexedDrop"
    /\ io = <<>>
    /\ \A b \in Bufs : start[b] = Len(data[b]) /\ start[b] >= 1
    /\ version["v"] = 1 /\ version["i"] >= 1

\* ------------------------------------------------------------------ C5
\* C5: for a BackedBuffer created by with_capacity(C), a Batch that pushes
\* C+1 records into the empty buffer commits with exactly one allocation,
\* of at least (C+1) records' bytes, followed by one upload of the whole
\* mirror at offset 0, and takes version() from 0 to 1; a following Batch
\* that pushes one more record that still fits the new device buffer
\* commits by a single partial write, without allocation, version() kept.
C5_AmortizedGrowth ==
    [][(last' = "BatchDrop" /\ ctor["v"].kind = "with_capacity") =>
       LET C == ctor["v"].n
           sz == sizeT
       IN  /\ (/\ version["v"] = 0 /\ dev["v"].id = 0
               /\ start["v"] = 0 /\ BufLen("v") = C + 1)
              => /\ Len(io') = 2
                 /\ io'[1].op = "alloc" /\ io'[1].buf = "v"
                 /\ io'[1].len >= (C + 1) * sz
                 /\ io'[2].op = "write" /\ io'[2].buf = "v" /\ io'[2].ok
                 /\ io'[2].id = io'[1].id /\ io'[2].offset = 0
                 /\ io'[2].bytes = CastSlice(data["v"], sz)
                 /\ BufSize(dev'["v"]) = io'[1].len
                 /\ version'["v"] = 1
           /\ (/\ version["v"] = 1
               /\ start["v"] = C + 1 /\ BufLen("v") = C + 2
               /\ (C + 2) * sz <= BufSize(dev["v"]))
              => /\ Len(io') = 1
                 /\ io'[1].op = "write" /\ io'[1].buf = "v" /\ io'[1].ok
                 /\ io'[1].offset = (C + 1) * sz /\ io'[1].len = sz
                 /\ dev'["v"].id = dev["v"].id
                 /\ version'["v"] = 1]_vars

\* the one-record follow-up batch has just committed by a partial write
\* into the buffer the (C+1)-record batch allocated
C5_Witness ==
    /\ last = "BatchDrop"
    /\ ctor["v"].kind = "with_capacity" /\ ctor["v"].n = 1
    /\ version["v"] = 1
    /\ start["v"] = ctor["v"].n + 1 /\ BufLen("v") = ctor["v"].n + 2
    /\ Len(io) = 1 /\ io[1].op = "write"
    /\ io[1].offset = start["v"] * sizeT

\* ------------------------------------------------------------------ C6
\* C6: when a Batch with at least one push ends and the mirror's reserved
\* capacity in bytes does not exceed the device buffer's size, exactly one
\* device write is issued, at offset start*sizeof(T), of (len-start)*
\* sizeof(T) bytes, carrying the records pushed in this batch; the device
\* bytes before the offset, the device identity and version() are kept.
C6_PartialWriteCommit ==
    [][(/\ last' = "BatchDrop"
        /\ start["v"] < BufLen("v")
        /\ cap["v"] * sizeT <= BufSize(dev["v"]))
       => /\ io' = <<[op |-> "write", buf |-> "v", id |-> dev["v"].id,
                      offset |-> start["v"] * sizeT,
                      len |-> (BufLen("v") - start["v"]) * sizeT,
                      bytes |-> CastSlice(SubSeq(data["v"], start["v"] + 1,
                                                 BufLen("v")), sizeT),
                      ok |-> TRUE]>>
          /\ dev'["v"].id = dev["v"].id
          /\ BufSize(dev'["v"]) = BufSize(dev["v"])
          /\ \A k \in 1..(start["v"] * sizeT) :
                dev'["v"].bytes[k] = dev["v"].bytes[k]
          /\ \A k \in 1..((BufLen("v") - start["v"]) * sizeT) :
                dev'["v"].bytes[start["v"] * sizeT + k] = io'[1].bytes[k]
          /\ version'["v"] = version["v"]]_vars

\* the first batch on a with_capacity buffer of 8-byte records has just
\* written its single record at offset 0 (8 bytes) and left version() at 0
C6_Witness ==
    /\ last = "BatchDrop"
    /\ sizeT = 8
    /\ ctor["v"].kind = "with_capacity"
    /\ version["v"] = 0 /\ dev["v"].id = 0
    /\ start["v"] = 0 /\ BufLen("v") = 1
    /\ Len(io) = 1 /\ io[1].op = "write"
    /\ io[1].offset = 0 /\ io[1].len = sizeT /\ io[1].ok

\* ------------------------------------------------------------------ C7
\* C7: whenever no batch is open on a BackedBuffer (vertex or index),
\* len() times its record size is at most its device buffer's byte size.
C7_CapacityInvariant ==
    \A b \in Bufs :
        open[b] = "none" => BufLen(b) * ElemSize(b, sizeT) <= BufSize(dev[b])

\* ------------------------------------------------------------------ C8
\* C8: while an IndexedBatch is open, the vertex mirror and the index
\* mirror have gained the same number of entries since the batch began,
\* and the j-th index gained is the vertex count at the start plus j-1.
C8_IndexedConsistency ==
    open["v"] = "indexed" =>
        /\ BufLen("i") - start["i"] = BufLen("v") - start["v"]
        /\ \A j \in 1..(BufLen("i") - start["i"]) :
              data["i"][start["i"] + j] = start["v"] + j - 1

\* two line() calls have appended four vertices and four indices
C8_Witness ==
    /\ last = "Line"
    /\ open["v"] = "indexed"
    /\ BufLen("v") - start["v"] = 4
    /\ BufLen("i") - start["i"] = 4

\* ------------------------------------------------------------------ C9
\* C9: after every IndexedBatch scope exit the first len() 32-bit entries
\* of the index buffer's device contents equal the index mirror.
C9_IndexBufferConsistent == last = "IndexedDrop" => Consistent("i")

\* ----------------------------------------------------------------- C10
\* C10: when an IndexedBatch with at least one index pushed ends, the index
\* device buffer is reallocated if and only if the index mirror's reserved
\* capacity times 4 bytes exceeds the index device buffer's byte size.
C10_IndexReallocRule ==
    [][(last' = "IndexedDrop" /\ start["i"] < BufLen("i"))
       => (Allocs("i", io') = 1 <=> cap["i"] * IndexSize > BufSize(dev["i"]))
      ]_vars

\* ----------------------------------------------------------------- C11
\* C11: when a Batch or an IndexedBatch ends, a buffer for which the commit
\* made no allocation keeps its version() and its device identity, whatever
\* the commit of the other buffer did, and a buffer the commit issued no
\* device traffic for keeps its device buffer entirely.
C11_IndependentVersions ==
    [][last' \in {"BatchDrop", "IndexedDrop"} =>
       \A b \in Bufs :
          /\ Allocs(b, io') = 0
             => version'[b] = version[b] /\ dev'[b].id = dev[b].id
          /\ (Allocs(b, io') = 0 /\ Writes(b, io') = <<>>)
             => dev'[b] = dev[b]]_vars

\* an IndexedBatch has just reallocated the vertex buffer while the index
\* buffer took a partial write and kept version 0
C11_Witness ==
    /\ last = "IndexedDrop"
    /\ Allocs("v", io) = 1 /\ Allocs("i", io) = 0
    /\ Len(Writes("i", io)) = 1
    /\ version["v"] = 1 /\ version["i"] = 0
    /\ dev["i"].id = 0

\* ----------------------------------------------------------------- C12
\* C12: push, vertex and line issue no device allocation and no device
\* write; the end of a batch issues, for each buffer it commits, at most
\* one allocation, and exactly one write if at least one record was pushed
\* to that buffer in the batch.
C12_SingleDeferredCommit ==
    [][/\ last' \in {"Push", "Vertex", "Line"}
          => io' = <<>> /\ dev' = dev /\ nextId' = nextId
       /\ last' \in {"BatchDrop", "IndexedDrop"}
          => \A b \in Bufs :
                /\ Allocs(b, io') <= 1
                /\ Len(Writes(b, io')) <= 1
                /\ (open[b] # "none" /\ start[b] < Len(data[b]))
                   => Len(Writes(b, io')) = 1
                /\ open[b] = "none"
                   => Allocs(b, io') = 0 /\ Writes(b, io') = <<>>]_vars

\* a Batch that pushed three records behind an older one, growing the
\* mirror's storage, has just committed with one allocation and one write
C12_Witness ==
    /\ last = "BatchDrop"
    /\ start["v"] = 1 /\ Len(data["v"]) = 4
    /\ Allocs("v", io) = 1
    /\ Len(Writes("v", io)) = 1
    /\ Len(io) = 2

\* ----------------------------------------------------------------- C14
\* C14: a consumer that before each draw compares version() with the value
\* it remembered and re-fetches buffer() when they differ draws, in every
\* interleaving with batches and updates, with the current device buffer
\* of each BackedBuffer.
C14_ConsumerProtocol ==
    last = "Draw" => \A b \in Bufs : bound[b] = dev[b].id

\* a draw has just happened after both buffers were reallocated, the index
\* buffer twice; the consumer has rebuilt both bindings
C14_Witness ==
    /\ last = "Draw"
    /\ version["v"] = 1 /\ bound["v"] = 1 /\ seen["v"] = 1
    /\ version["i"] = 2 /\ bound["i"] = 2 /\ seen["i"] = 2

\* ----------------------------------------------------------------- C15
\* C15: right after construction, a buffer built by with_capacity(c) has
\* len() = 0, version() = 0 and a device buffer of exactly c*sizeof(T)
\* bytes, none of them written; a buffer built by with_data(records) has
\* len() = the number of records, version() = 0 and a device buffer of
\* exactly the records' byte size holding the records' bytes.
C15_Constructors ==
    last = "new" =>
       /\ io = <<>>
       /\ \A b \in Bufs :
             LET sz == ElemSize(b, sizeT)
             IN  /\ version[b] = 0
                 /\ BufSize(dev[b]) = ctor[b].n * sz
                 /\ ctor[b].kind = "with_capacity"
                    => /\ BufLen(b) = 0
                       /\ \A k \in 1..BufSize(dev[b]) : dev[b].bytes[k] = Uninit
                 /\ ctor[b].kind = "with_data"
                    => /\ BufLen(b) = ctor[b].n
                       /\ dev[b].bytes = CastSlice(data[b], sz)

\* a vertex buffer from with_capacity(1) over 8-byte records next to an
\* index buffer from with_data of one index
C15_Witness ==
    /\ last = "new"
    /\ sizeT = 8
    /\ ctor["v"].kind = "with_capacity" /\ ctor["v"].n = 1
    /\ BufSize(dev["v"]) = 8
    /\ ctor["i"].kind = "with_data" /\ ctor["i"].n = 1
    /\ BufSize(dev["i"]) = 4

\* ----------------------------------------------------------------- C16
\* C16: update(mutator) issues exactly one device write, of the whole
\* mutated mirror at offset 0, makes no allocation, leaves len(), version()
\* and the device identity unchanged, and afterwards the device prefix
\* equals the mutated mirror.
C16_Update ==
    [][last' = "Update" =>
       \E b \in Bufs :
          /\ Len(io') = 1
          /\ io'[1].op = "write" /\ io'[1].buf = b /\ io'[1].offset = 0
          /\ io'[1].bytes = CastSlice(data'[b], ElemSize(b, sizeT))
          /\ Len(data'[b]) = Len(data[b])
          /\ version' = version
          /\ \A c \in Bufs : dev'[c].id = dev[c].id
          /\ Consistent(b)']_vars

\* ----------------------------------------------------------------- C18
\* C18: when a device write or allocation issued by a batch's scope-exit
\* commit fails, the drop reports a failure result to its caller.
C18_FailurePropagates ==
    [][(/\ last' \in {"BatchDrop", "IndexedDrop"}
        /\ \E k \in DOMAIN io' : ~io'[k].ok)
       => result' = "error"]_vars

\* ----------------------------------------------------------------- C19
\* C19: len() of a buffer always equals the number of records given at
\* construction plus the number of pushes made to it so far, and a batch
\* that is opened records that number as its start.
C19_LenCountsRecords ==
    /\ [](\A b \in Bufs : BufLen(b) = Given(b) + pushes[b])
    /\ [][\A b \in Bufs :
             (open[b] = "none" /\ open'[b] # "none")
             => start'[b] = Given(b) + pushes[b]]_vars

\* a batch has just been opened on a buffer of three records (one from
\* with_data, two pushed) whose reserved capacity is four
C19_Witness ==
    /\ last = "BatchNew"
    /\ ctor["v"].kind = "with_data" /\ ctor["v"].n = 1
    /\ pushes["v"] = 2
    /\ start["v"] = 3
    /\ cap["v"] = 4
    /\ BufSize(dev["v"]) = 4 * sizeT
    /\ BufLen("v") = 3

\* ----------------------------------------------------------------- C20
\* C20: at the end of a Batch in which at least one record was pushed, the
\* device buffer is reallocated if the mirror's reserved capacity times
\* sizeof(T) is strictly greater than the device buffer's byte size, and
\* otherwise (equal or smaller) a single partial write is made.
C20_CommitDecision ==
    [][(/\ last' \in {"BatchDrop", "IndexedDrop"}
        /\ start["v"] < Len(data["v"]))
       => IF cap["v"] * sizeT > BufSize(dev["v"])
          THEN /\ Allocs("v", io') = 1
               /\ dev'["v"].id # dev["v"].id
          ELSE /\ Allocs("v", io') = 0
               /\ Len(Writes("v", io')) = 1
               /\ Writes("v", io')[1].id = dev["v"].id
               /\ dev'["v"].id = dev["v"].id]_vars

\* a Batch has just committed by a partial write into a device buffer whose
\* size equals the mirror's reserved capacity in bytes
C20_Witness ==
    /\ last = "BatchDrop"
    /\ start["v"] < Len(data["v"])
    /\ cap["v"] * sizeT = BufSize(dev["v"])
    /\ Allocs("v", io) = 0
    /\ Len(io) = 1 /\ io[1].op = "write"
    /\ version["v"] = 1

\* ----------------------------------------------------------------- C21
\* C21: when the commit of a Batch reallocates, it allocates one device
\* buffer of the mirror's reserved capacity times sizeof(T) bytes, uploads
\* the whole mirror (records 0..len()) in a single write at offset 0 of the
\* new buffer, which becomes the BackedBuffer's device buffer, and version()
\* grows by 1.
C21_ReallocatingCommit ==
    [][(/\ last' \in {"BatchDrop", "IndexedDrop"}
        /\ Allocs("v", io') = 1)
       => LET log == SelectSeq(io', LAMBDA e : e.buf = "v")
          IN  /\ Len(log) = 2
              /\ log[1].op = "alloc"
              /\ log[1].len = cap["v"] * sizeT
              /\ log[2].op = "write" /\ log[2].ok
              /\ log[2].id = log[1].id /\ log[2].offset = 0
              /\ log[2].bytes = CastSlice(data["v"], sizeT)
              /\ log[2].len = BufLen("v") * sizeT
              /\ dev'["v"].id = log[1].id
              /\ dev'["v"].id # dev["v"].id
              /\ BufSize(dev'["v"]) = cap["v"] * sizeT
              /\ Consistent("v")'
              /\ version'["v"] = version["v"] + 1]_vars

\* a Batch has just reallocated for a mirror that holds two records and has
\* room reserved for four
C21_Witness ==
    /\ last = "BatchDrop"
    /\ Allocs("v", io) = 1
    /\ BufLen("v") = 2 /\ cap["v"] = 4
    /\ BufSize(dev["v"]) = 4 * sizeT
    /\ version["v"] = 1

\* ----------------------------------------------------------------- C22
\* C22: when an IndexedBatch scope ends, every device call of the vertex
\* buffer's commit is issued before every device call of the index buffer's
\* commit.
C22_VertexCommitFirst ==
    [][last' = "IndexedDrop" =>
       \A j, k \in DOMAIN io' :
          (io'[j].buf = "v" /\ io'[k].buf = "i") => j < k]_vars

\* C22, amended: when an IndexedBatch scope ends, every device call of the
\* index buffer's commit is issued before every device call of the vertex
\* buffer's commit.
C22_IndexCommitFirst ==
    [][last' = "IndexedDrop" =>
       \A j, k \in DOMAIN io' :
          (io'[j].buf = "i" /\ io'[k].buf = "v") => j < k]_vars

\* an IndexedBatch has just ended with a reallocation of each buffer: the
\* index buffer's allocation and upload, then the vertex buffer's
C22_Witness ==
    /\ last = "IndexedDrop"
    /\ Len(io) = 4
    /\ io[1].buf = "i" /\ io[1].op = "alloc"
    /\ io[2].buf = "i" /\ io[2].op = "write"
    /\ io[3].buf = "v" /\ io[3].op = "alloc"
    /\ io[4].buf = "v" /\ io[4].op = "write"

\* ----------------------------------------------------------------- C23
\* C23: the usage set a BackedBuffer stores is the usage requested at
\* construction plus COPY_DST, no step changes it, and every device buffer
\* a reallocating commit allocates, for the vertex or the index buffer, is
\* created with exactly the stored usage set.
C23_UsageFixed ==
    /\ [](\A b \in Bufs :
             /\ usage[b] = requested[b] \cup {"COPY_DST"}
             /\ "COPY_DST" \in usage[b])
    /\ [][/\ usage' = usage
          /\ \A b \in Bufs :
                Allocs(b, io') = 1 => devUsage'[b] = usage[b]]_vars

\* an IndexedBatch has just reallocated both buffers of a caller that did
\* not ask for COPY_DST
C23_Witness ==
    /\ last = "IndexedDrop"
    /\ Allocs("v", io) = 1 /\ Allocs("i", io) = 1
    /\ requested["v"] = {"STORAGE", "COPY_SRC"}
    /\ devUsage["v"] = {"STORAGE", "COPY_SRC", "COPY_DST"}
    /\ devUsage["i"] = {"STORAGE", "COPY_SRC", "COPY_DST"}

\* ----------------------------------------------------------------- C24
\* C24: line(a, b) leaves the mirrors as vertex(a) followed by vertex(b)
\* does: with n the vertex count before the call, vertex(a) appends a to
\* the vertex mirror and n to the index mirror, and line(a, b) appends a
\* then b and n then n+1; line issues no device allocation or write and
\* leaves the device buffers and versions as they were.
C24_LineIsTwoVertices ==
    [][LET n == BufLen("v")
       IN  /\ last' = "Vertex" =>
                /\ data'["v"] = Append(data["v"], Rec(n))
                /\ data'["i"] = Append(data["i"], n)
           /\ last' = "Line" =>
                /\ data'["v"] = Append(Append(data["v"], Rec(n)), Rec(n + 1))
                /\ data'["i"] = Append(Append(data["i"], n), n + 1)
                /\ io' = <<>>
                /\ UNCHANGED <<dev, version, nextId>>]_vars

\* line() has just been called on a vertex buffer of two records and an
\* index buffer of one entry: records 2 and 3 and indices 2 and 3 were added
C24_Witness ==
    /\ last = "Line"
    /\ BufLen("v") = 4 /\ BufLen("i") = 3
    /\ data["i"][2] = 2 /\ data["i"][3] = 3
    /\ data["v"][3] = Rec(2) /\ data["v"][4] = Rec(3)

\* ----------------------------------------------------------------- C25
\* C25: no commit of a Batch or of the index side of an IndexedBatch,
\* partial or whole, issues a device write whose byte range offset + length
\* extends beyond the byte size of the device buffer written to, for any
\* record size.
C25_NoOutOfBoundsWrite ==
    [][last' \in {"BatchDrop", "IndexedDrop"} =>
       \A k \in DOMAIN io' :
          io'[k].op = "write" =>
             /\ io'[k].ok
             /\ io'[k].offset + io'[k].len
                   <= BufSize(dev'[io'[k].buf])]_vars

\* ----------------------------------------------------------------- C26
\* C26: for a BackedBuffer built by with_data over n records, whose device
\* buffer is exactly n*sizeof(T) bytes, the first Batch that pushes at least
\* one record commits by a reallocation and takes version() from 0 to 1,
\* whether or not the Vec handed in had spare capacity.
C26_FirstAppendReallocates ==
    [][(/\ last' \in {"BatchDrop", "IndexedDrop"}
        /\ ctor["v"].kind = "with_data"
        /\ start["v"] = ctor["v"].n
        /\ start["v"] < BufLen("v"))
       => /\ BufSize(dev["v"]) = ctor["v"].n * sizeT
          /\ version["v"] = 0
          /\ Allocs("v", io') = 1
          /\ dev'["v"].id # dev["v"].id
          /\ version'["v"] = 1]_vars

\* the first pushing Batch on a with_data buffer of one record whose Vec had
\* room for one more has just committed: the push did not grow the Vec, yet
\* the commit reallocated
C26_Witness ==
    /\ last = "BatchDrop"
    /\ ctor["v"].kind = "with_data" /\ ctor["v"].n = 1
    /\ start["v"] = 1 /\ BufLen("v") = 2 /\ cap["v"] = 2
    /\ Allocs("v", io) = 1
    /\ BufSize(dev["v"]) = 2 * sizeT
    /\ version["v"] = 1

\* ----------------------------------------------------------------- C27
\* C27: if the index buffer was constructed empty, then whenever no batch
\* is open every entry of the index mirror that an IndexedBatch put there
\* (every entry update() did not overwrite) is strictly less than the
\* vertex buffer's len(); and the entries an IndexedBatch has appended are
\* consecutive and strictly increasing.
C27_IndicesInRange ==
    /\ (Given("i") = 0 /\ open["i"] = "none")
       => \A k \in 1..BufLen("i") :
             data["i"][k] # Mark => data["i"][k] < BufLen("v")
    /\ (open["i"] = "indexed" \/ last = "IndexedDrop")
       => \A k \in (start["i"] + 1)..(BufLen("i") - 1) :
             data["i"][k + 1] = data["i"][k] + 1

\* an IndexedBatch has just ended that appended the indices 1, 2, 3 for a
\* vertex buffer that held one record before
C27_Witness ==
    /\ last = "IndexedDrop"
    /\ Given("i") = 0
    /\ data["i"] = <<1, 2, 3>>
    /\ start["i"] = 0
    /\ BufLen("v") = 4

\* ----------------------------------------------------------------- C28
\* C28: in every step of batches, indexed batches and updates, len() of
\* each BackedBuffer does not decrease and the byte size of its device
\* buffer does not decrease; a step that replaces the device buffer installs
\* a strictly larger one.
C28_BuffersOnlyGrow ==
    [][\A b \in Bufs :
          /\ Len(data'[b]) >= Len(data[b])
          /\ BufSize(dev'[b]) >= BufSize(dev[b])
          /\ (dev'[b].id # dev[b].id \/ Allocs(b, io') > 0)
             => BufSize(dev'[b]) > BufSize(dev[b])]_vars

\* a Batch has just replaced the one-record device buffer the vertex buffer
\* was constructed with by one of four records
C28_Witness ==
    /\ last = "BatchDrop"
    /\ ctor["v"].n = 1
    /\ Allocs("v", io) = 1
    /\ dev["v"].id = 1
    /\ BufSize(dev["v"]) = 4 * sizeT
    /\ BufLen("v") = 3

\* ----------------------------------------------------------------- C29
\* C29: after buffer_text and any sequence of update_text calls, the vertex
\* device buffer holds at least 16 bytes per generated vertex and the index
\* device buffer at least 4 bytes per generated index, the leading contents
\* of each equal the data generated for the latest text, num_indices is the
\* number of indices generated for it and a draw is accepted; and
\* update_text replaces a buffer only when the generated data does not fit
\* into it, and otherwise overwrites it from offset 0.
C29_TextBuffersDrawable ==
    /\ [](LET r == GenerateTextData(text)
          IN  /\ vertices.size >= TexturedVertexSize * Len(r.verts)
              /\ indices.size >= IndexSize * Len(r.indices)
              /\ SubSeq(vertices.items, 1, Len(r.verts)) = r.verts
              /\ SubSeq(indices.items, 1, Len(r.indices)) = r.indices
              /\ numIndices = Len(r.indices)
              /\ last = "DrawText" => result = "drawn")
    /\ [][last' = "UpdateText" =>
          \A k \in DOMAIN io' :
             LET e == io'[k]
                 old == IF e.buf = "vertices" THEN vertices ELSE indices
             IN  /\ e.op = "alloc" => e.len > old.size
                 /\ e.op = "write" => e.offset = 0 /\ e.ok]_vars

\* ----------------------------------------------------------------- C30
\* C30: for the text last given, with k the number of its characters whose
\* selected glyph has non-zero width and height, generate_text_data yields
\* exactly 4k vertices and 6k indices, the j-th such glyph (j from 0)
\* contributes the indices 4j, 4j+1, 4j+2, 4j, 4j+2, 4j+3, every index is
\* less than the vertex count, and the first vertex of each drawn glyph
\* lies at the sum of the xadvance of all characters before it, drawn or
\* not, plus its xoffset plus 20.
C30_TextDataShape ==
    LET r == GenerateTextData(text)
        k == Cardinality(Visible(text))
    IN  /\ Len(r.verts) = 4 * k
        /\ Len(r.indices) = 6 * k
        /\ numIndices = 6 * k
        /\ \A j \in 0..(k - 1) :
              SubSeq(r.indices, 6 * j + 1, 6 * j + 6)
                 = <<4 * j, 4 * j + 1, 4 * j + 2, 4 * j, 4 * j + 2, 4 * j + 3>>
        /\ \A n \in DOMAIN r.indices : r.indices[n] < Len(r.verts)
        /\ \A p \in Visible(text) :
              LET j == Cardinality({q \in Visible(text) : q < p})
                  g == SelectedGlyph(text[p])
              IN  r.verts[4 * j + 1].position[1]
                     = Advance(SubSeq(text, 1, p - 1)) + g.xoffset + 20

\* update_text was just given a glyph of no size followed by a character
\* the font lacks: one quad, moved right by the first glyph's xadvance
C30_Witness ==
    /\ last = "UpdateText"
    /\ text = <<" ", "?">>
    /\ numIndices = 6
    /\ Len(vertices.items) >= 4
    /\ vertices.items[1].position = <<22, 21>>
    /\ indices.items[6] = 3

\* ----------------------------------------------------------------- C31
\* C31: Font::load returns an error when the unknown_char it is given has
\* no glyph in the font; so for every Font that load returned,
\* unknown_glyph() returns a glyph without panicking, and generate_text_data
\* panics for no text, characters without a glyph included.
C31_UnknownGlyphNeverFails ==
    /\ [][(/\ last' = "Load"
           /\ \A i \in DOMAIN font.info : font.info[i] # font.unknown_char)
          => font'.status = "error" /\ result' = "error"]_vars
    /\ [](font.status = "loaded" =>
             /\ ~UnknownGlyphPanics(font)
             /\ FontGlyph(font, font.unknown_char)
                   = <<GlyphMap[font.unknown_char]>>
             /\ \A t \in Texts : ~GeneratePanics(font, t))
    /\ [](result # "panic")

\* text data was just generated with a Font whose only glyph is that of
\* its unknown_char: every character of every text fell back to it
C31_Witness ==
    /\ last = "GenerateTextData"
    /\ result = "data"
    /\ font.status = "loaded"
    /\ font.info = <<"b">> /\ font.unknown_char = "b"
    /\ \A c \in Chars : FontGlyph(font, c) = <<>>
====
